---- MODULE Spec2Model ----
(***************************************************************************)
(* Model of the rate-paced ICMP dispatch engine of src/src/main.rs: the    *)
(* coordinator (main), the workers (PingWorker::run, send_batch), the send *)
(* tasks they spawn, the one-second pacer (tokio interval, Skip policy)    *)
(* and the per-worker statistics.                                          *)
(*                                                                         *)
(* Time is a global integer clock. One batch interval (1 s, main.rs:61)    *)
(* is Period clock units, so that a batch can overrun a pacer boundary by  *)
(* a fraction of a period.                                                 *)
(***************************************************************************)
EXTENDS Integers, Sequences, FiniteSets, TLC

\* ---------------------------------------------------------------- bounds
MaxRps == 2          \* Spec: args.rps ranges over 0..MaxRps
MaxShare == 2        \* SpecWorker: args.rps ranges over 0..MaxShare
MaxSeconds == 2      \* SpecWorker: args.duration ranges over 0..MaxSeconds
MaxSlack == 0        \* the clock runs until MaxSlack units past the duration
MaxClock == 1        \* SystemTime readings (nanoseconds) range over 0..MaxClock
MaxRate == 12        \* SpecSizing: args.rps ranges over 0..MaxRate and the defaults
MaxPacketLen == 7    \* SpecPing: datagram buffers of 4..MaxPacketLen bytes
MaxEntries == 3      \* SpecLoad: whitelists of 0..MaxEntries entries
MaxCores == 18       \* SpecSizing: the core count ranges over 0..MaxCores

\* ------------------------------------------------------ program constants
Period == 2          \* batch_interval = 1.0 s, in clock units
MaxWorkers == 16     \* core_count.max(1).min(16)
MinWorkers == 1
DefaultRps == 2500   \* the default of --rps
EchoLen == 64        \* let mut packet = [0u8; 64]

\* ------------------------------------------------------------- addresses
V4Addrs == {"10.0.0.1", "10.0.0.2"}
V6Addrs == {"::1"}
Addresses == V4Addrs \cup V6Addrs

\* A whitelist entry: a string body preceded by `lead` blanks.
Entry(lead, body) == [lead |-> lead, body |-> body]

\* str::parse::<IpAddr>: accepts exactly the address literals, no padding.
ParseAddr(e) == IF e.lead = 0 /\ e.body \in Addresses THEN e.body ELSE "none"

\* faulty variant: the line is parsed as read, without trim()
TrimNone(e) == e

\* str::trim
Trim(e) == Entry(0, e.body)

\* line.is_empty() after trimming
IsBlank(e) == e.body = ""

RECURSIVE CollectJson(_)
CollectJson(items) ==
    IF items = <<>> THEN <<>>
    ELSE LET a == ParseAddr(Head(items))
         IN  (IF a = "none" THEN <<>> ELSE <<a>>) \o CollectJson(Tail(items))

RECURSIVE CollectLines(_)
CollectLines(items) ==
    IF items = <<>> THEN <<>>
    ELSE LET line == Trim(Head(items))
             a == ParseAddr(line)
         IN  (IF IsBlank(line) \/ a = "none" THEN <<>> ELSE <<a>>)
                 \o CollectLines(Tail(items))

\* load_whitelist on a readable file: the JSON branch when the content is a
\* JSON array of strings, the line branch otherwise.
LoadWhitelist(f) ==
    IF f.json THEN CollectJson(f.items) ELSE CollectLines(f.items)

File(readable, json, items) ==
    [readable |-> readable, json |-> json, items |-> items]

\* The whitelist files the runs of Spec are started with: unreadable, an
\* empty JSON array, lines without an address, a JSON array of two addresses.
RunFiles ==
    { File(FALSE, FALSE, <<>>),
      File(TRUE, TRUE, <<>>),
      File(TRUE, FALSE, <<Entry(0, "junk"), Entry(0, "")>>),
      File(TRUE, TRUE, <<Entry(0, "10.0.0.1"), Entry(0, "::1")>>) }

\* The whitelist files the runs of SpecWorker are started with: one padded
\* line, a JSON array of two addresses.
WorkerFiles ==
    { File(TRUE, FALSE, <<Entry(1, "10.0.0.1")>>),
      File(TRUE, TRUE, <<Entry(0, "10.0.0.1"), Entry(0, "::1")>>) }

VARIABLES
    file,            \* the whitelist file named by args.whitelist
    args,            \* [rps, duration]: the parsed command line
    core_count,      \* sys.cpus().len()
    now,             \* the clock
    mpc,             \* main's position
    targets,         \* main's Target Pool
    worker_count,
    rps_per_worker,
    fw,              \* the firewall: rule installed, install/remove attempted
    mi,              \* main's loop index (spawn loop, join loop)
    result,          \* main's return value: "none", "Ok", "Err"
    wk,              \* per worker: the locals of run and send_batch, and the
                     \* record of its current batch (number, failures seen)
    stats,           \* per worker: Stats behind its mutex, and the lock
    tasks,           \* per worker: the send tasks not yet joined
    ping             \* one call of send_ping followed step by step: its
                     \* target, the system call that fails, the datagram
                     \* buffer, the result, what went on the wire

vars == << file, args, core_count, now, mpc, targets, worker_count,
           rps_per_worker, fw, mi, result, wk, stats, tasks, ping >>

inputs == << file, args, core_count >>
mainvars == << mpc, targets, worker_count, rps_per_worker, fw, mi, result >>

Workers == DOMAIN wk

\* ------------------------------------------------------------- coordinator

\* faulty variant: core_count.max(1), the cap of 16 left out
WorkerCountNoCap(cores) == IF cores > MinWorkers THEN cores ELSE MinWorkers

\* core_count.max(1).min(16)
WorkerCount(cores) ==
    LET atLeast == IF cores > MinWorkers THEN cores ELSE MinWorkers
    IN  IF atLeast < MaxWorkers THEN atLeast ELSE MaxWorkers

\* faulty variant: the share rounded up instead of down
RateShareCeil(rps, count) == (rps + count - 1) \div count

\* args.rps / worker_count (usize division)
RateShare(rps, count) == rps \div count

\* std's Termination for Result<(), E>: Ok is EXIT_SUCCESS, Err is EXIT_FAILURE
ExitCode(r) == IF r = "Ok" THEN 0 ELSE 1

\* Stats::default()
NewStats == [total_requests |-> 0, batches_sent |-> 0, start_time |-> -1,
             locked |-> FALSE]

\* the locals of a worker that has not run yet
NewWorker(pool) ==
    [pc |-> "idle", targets |-> pool, rps |-> 0, duration |-> 0, start |-> -1,
     istart |-> -1, deadline |-> -1, tick_sched |-> -1, batch |-> 0,
     batch_start |-> -1, sp |-> 0, jn |-> 0, failures |-> {}]

\* The core counts the runs of Spec are started with: none detected (one
\* worker) and two (two workers).
RunCores == {0, 2}

\* The durations (seconds) the runs of Spec are started with.
RunSeconds == {0, 1}

\* no call of send_ping is followed
NoPing == [pc |-> "off", target |-> "none", net |-> "none", packet |-> <<>>,
           res |-> "none", wire |-> <<>>]

\* the state when main is entered
Start ==
    /\ now = 0
    /\ mpc = "load"
    /\ targets = <<>>
    /\ worker_count = 0
    /\ rps_per_worker = 0
    /\ fw = [rule |-> FALSE, install |-> "none", remove |-> "none"]
    /\ mi = 0
    /\ result = "none"
    /\ wk = <<>>
    /\ stats = <<>>
    /\ tasks = <<>>
    /\ ping = NoPing

\* whole runs, with one or two workers
Init ==
    /\ file \in RunFiles
    /\ args \in [rps : 0..MaxRps, duration : RunSeconds]
    /\ core_count \in RunCores
    /\ Start

\* runs of a single worker over a non-empty pool, with longer durations
InitWorker ==
    /\ file \in WorkerFiles
    /\ args \in [rps : 0..MaxShare, duration : 0..MaxSeconds]
    /\ core_count = 1
    /\ Start

\* the sizing of the pool and of the rate shares, for any core count
InitSizing ==
    /\ file \in WorkerFiles
    /\ args \in [rps : (0..MaxRate) \cup {DefaultRps, DefaultRps + 1},
                  duration : {0}]
    /\ core_count \in 0..MaxCores
    /\ Start

\* main returns r
Return(r) ==
    /\ mpc' = "exit"
    /\ result' = r

\* line 230: load_whitelist(&args.whitelist).await?
MainLoad ==
    /\ mpc = "load"
    /\ IF file.readable
       THEN /\ targets' = LoadWhitelist(file)
            /\ mpc' = "validate"
            /\ UNCHANGED result
       ELSE /\ Return("Err")
            /\ UNCHANGED targets
    /\ UNCHANGED << ping, inputs, now, worker_count, rps_per_worker, fw, mi, wk,
                    stats, tasks >>

\* faulty variant: the emptiness check left out
IsEmptyNever(pool) == FALSE

\* line 231: targets.is_empty()
IsEmpty(pool) == pool = <<>>

\* line 233: what main returns on an empty pool
EmptyPoolResult == "Ok"

\* lines 231-235
MainValidate ==
    /\ mpc = "validate"
    /\ IF IsEmpty(targets)
       THEN Return(EmptyPoolResult)
       ELSE /\ mpc' = "size"
            /\ UNCHANGED result
    /\ UNCHANGED << ping, inputs, now, targets, worker_count, rps_per_worker, fw,
                    mi, wk, stats, tasks >>

\* lines 238-244
MainSize ==
    /\ mpc = "size"
    /\ worker_count' = WorkerCount(core_count)
    /\ rps_per_worker' = RateShare(args.rps, WorkerCount(core_count))
    /\ mpc' = "install"
    /\ UNCHANGED << ping, inputs, now, targets, fw, mi, result, wk, stats, tasks >>

\* How a run of `sudo iptables ...` can end: sudo cannot be launched, the
\* utility exits non-zero, the utility exits zero.
ToolOutcomes == {"launch_failed", "nonzero", "zero"}

\* `.status().await?`: the ? returns from main when the launch itself failed;
\* the exit status is discarded by `let _ =`.
StatusPropagates(o) == o = "launch_failed"

\* lines 247-261: iptables -A INPUT ... -j DROP
MainInstall ==
    /\ mpc = "install"
    /\ \E o \in ToolOutcomes :
          /\ fw' = [fw EXCEPT !.install = o,
                              !.rule = IF o = "zero" THEN TRUE ELSE @]
          /\ IF StatusPropagates(o)
             THEN Return("Err")
             ELSE /\ mpc' = "create"
                  /\ UNCHANGED result
    /\ UNCHANGED << ping, inputs, now, targets, worker_count, rps_per_worker, mi,
                    wk, stats, tasks >>

\* lines 264-268: one PingWorker::new(targets.clone()) per worker
MainCreate ==
    /\ mpc = "create"
    /\ wk' = [w \in 1..worker_count |-> NewWorker(targets)]
    /\ stats' = [w \in 1..worker_count |-> NewStats]
    /\ tasks' = [w \in 1..worker_count |-> <<>>]
    /\ mi' = 1
    /\ mpc' = "spawn"
    /\ UNCHANGED << ping, inputs, now, targets, worker_count, rps_per_worker, fw,
                    result >>

\* lines 272-277: tokio::spawn(worker.run(rps_per_worker, duration)), one
\* worker per step; a spawned worker may run before the next is spawned.
MainSpawn ==
    /\ mpc = "spawn"
    /\ IF mi <= Len(wk)
       THEN /\ wk' = [wk EXCEPT ![mi] = [@ EXCEPT !.pc = "run",
                                                  !.rps = rps_per_worker,
                                                  !.duration = args.duration * Period]]
            /\ mi' = mi + 1
            /\ UNCHANGED mpc
       ELSE /\ mpc' = "join"
            /\ mi' = 1
            /\ UNCHANGED wk
    /\ UNCHANGED << ping, inputs, now, targets, worker_count, rps_per_worker, fw,
                    result, stats, tasks >>

\* a worker's task has ended: run returned, or the task panicked
Completed(w) == wk[w].pc = "completed"
Panicked(w) == wk[w].pc = "panicked"

\* faulty variant: the handle is dropped instead of awaited
HandleReadyNoWait(w) == TRUE

\* handle.await resolves once the worker's task has ended
HandleReady(w) == Completed(w) \/ Panicked(w)

\* faulty variant: `let _ = handle.await`, the JoinError is discarded
JoinPropagatesNever(w) == FALSE

\* line 281: `handle.await?` returns from main on the JoinError of a
\* panicked worker task
JoinPropagates(w) == Panicked(w)

\* lines 280-282: for handle in handles { handle.await?; }
MainJoin ==
    /\ mpc = "join"
    /\ IF mi <= Len(wk)
       THEN /\ HandleReady(mi)
            /\ IF JoinPropagates(mi)
               THEN /\ Return("Err")
                    /\ UNCHANGED mi
               ELSE /\ mi' = mi + 1
                    /\ UNCHANGED << mpc, result >>
       ELSE /\ mpc' = "cleanup"
            /\ UNCHANGED << mi, result >>
    /\ UNCHANGED << ping, inputs, now, targets, worker_count, rps_per_worker, fw,
                    wk, stats, tasks >>

\* iptables -D exits zero only when it found the rule to delete
RemoveOutcomes == IF fw.rule THEN ToolOutcomes ELSE ToolOutcomes \ {"zero"}

\* lines 285-301: iptables -D INPUT ... -j DROP, then Ok(())
MainCleanup ==
    /\ mpc = "cleanup"
    /\ \E o \in RemoveOutcomes :
          /\ fw' = [fw EXCEPT !.remove = o,
                              !.rule = IF o = "zero" THEN FALSE ELSE @]
          /\ Return(IF StatusPropagates(o) THEN "Err" ELSE "Ok")
    /\ UNCHANGED << ping, inputs, now, targets, worker_count, rps_per_worker, mi,
                    wk, stats, tasks >>

\* the process is alive until main returns
Alive == mpc /= "exit"

\* ------------------------------------------------------------------ pacer

\* MissedTickBehavior::Skip: the first boundary of the schedule after t
SkipNext(timeout, t) == t + Period - ((t - timeout) % Period)

\* faulty variant: MissedTickBehavior::Burst, the schedule is kept as it was
NextDeadlineBurst(timeout, t) == timeout + Period

\* Interval::tick resolving at time t for the deadline `timeout`: a tick that
\* is delivered late is followed according to the missed-tick policy,
\* a tick on time by the next boundary.
NextDeadline(timeout, t) ==
    IF t > timeout THEN SkipNext(timeout, t) ELSE timeout + Period

\* ----------------------------------------------------------------- worker

WkSet(w, r) == wk' = [wk EXCEPT ![w] = r]

\* lines 56-65: record start_time under the lock, create the interval (its
\* first tick is due at once), take `start`
RunInit(w) ==
    /\ Alive
    /\ wk[w].pc = "run"
    /\ ~stats[w].locked
    /\ stats' = [stats EXCEPT ![w].start_time = now]
    /\ WkSet(w, [wk[w] EXCEPT !.pc = "check", !.istart = now,
                              !.deadline = now, !.start = now])
    /\ UNCHANGED << ping, inputs, now, mainvars, tasks >>

\* faulty variant: start.elapsed() <= duration
KeepRunningInclusive(elapsed, duration) == elapsed <= duration

\* line 66: start.elapsed() < duration
KeepRunning(elapsed, duration) == elapsed < duration

\* line 66: the loop condition; run returns when it is false
LoopCheck(w) ==
    /\ Alive
    /\ wk[w].pc = "check"
    /\ WkSet(w, [wk[w] EXCEPT !.pc =
            IF KeepRunning(now - wk[w].start, wk[w].duration)
            THEN "tick" ELSE "completed"])
    /\ UNCHANGED << ping, inputs, now, mainvars, stats, tasks >>

\* a task just handed to the runtime by task::spawn
NewTask(b) ==
    [batch |-> b, st |-> "spawned", idx |-> -1, target |-> "none",
     held |-> TRUE]

\* faulty variant: for _ in 0..=count
SpawnMoreInclusive(sp, count) == sp <= count

\* line 91: for _ in 0..count
SpawnMore(sp, count) == sp < count

\* faulty variant: the handles are dropped instead of awaited
AwaitReadyNoWait(t) == TRUE

\* line 107: task.await resolves once the task has ended
AwaitReady(t) == t.st /= "spawned"

\* line 106: the join loop goes on while handles are left
JoinMore(jn, sp) == jn < sp

\* where send_batch stands with jn of its sp handles awaited: in the join
\* loop, or back in run at line 72
AfterJoin(jn, sp) == IF JoinMore(jn, sp) THEN "join" ELSE "commit"

\* where send_batch stands with sp of its count tasks spawned: in the spawn
\* loop, or past it
AfterSpawn(sp, count) ==
    IF SpawnMore(sp, count) THEN "spawn" ELSE AfterJoin(0, sp)

\* faulty variant: the tick is not awaited
TickDueAlways(deadline, t) == TRUE

\* line 67: interval.tick().await resolves no earlier than its deadline
TickDue(deadline, t) == t >= deadline

\* lines 67-69 and 89: interval.tick().await resolves at or after its
\* deadline; batch_start = Instant::now(); send_batch allocates its Vec. The
\* allocation can panic (capacity overflow, resource exhaustion): an
\* unrecoverable fault of the worker's own task.
Tick(w) ==
    /\ Alive
    /\ wk[w].pc = "tick"
    /\ TickDue(wk[w].deadline, now)
    /\ \E fault \in BOOLEAN :
          WkSet(w, [wk[w] EXCEPT !.pc = IF fault THEN "panicked"
                                        ELSE AfterSpawn(0, wk[w].rps),
                                !.tick_sched = wk[w].deadline,
                                !.deadline = NextDeadline(wk[w].deadline, now),
                                !.batch = @ + 1,
                                !.batch_start = now,
                                !.sp = 0, !.jn = 0, !.failures = {}])
    /\ UNCHANGED << ping, inputs, now, mainvars, stats, tasks >>

\* lines 91-104: one task::spawn per step
Spawn(w) ==
    /\ Alive
    /\ wk[w].pc = "spawn"
    /\ tasks' = [tasks EXCEPT ![w] = Append(@, NewTask(wk[w].batch))]
    /\ WkSet(w, [wk[w] EXCEPT !.sp = @ + 1,
                              !.pc = AfterSpawn(wk[w].sp + 1, wk[w].rps)])
    /\ UNCHANGED << ping, inputs, now, mainvars, stats >>

\* ------------------------------------------------------------- send tasks

\* The first system call of send_ping that fails, if any.
NetOutcomes == {"none", "socket", "connect", "send"}

\* lines 112-140 (raw-socket variant)
SendPing(target, net) ==
    IF net = "socket" THEN "ErrSocket"
    ELSE IF target \in V6Addrs THEN "ErrUnsupported"
    ELSE IF net = "connect" THEN "ErrConnect"
    ELSE IF net = "send" THEN "ErrSend"
    ELSE "Ok"

\* lines 184-188: the 16-bit big-endian word at byte offset i (from 0); a
\* last odd byte is the high byte of a word whose low byte is 0
Word(data, i) ==
    IF i + 1 < Len(data) THEN data[i + 1] * 256 + data[i + 2]
    ELSE data[i + 1] * 256

\* lines 183-190: `sum += word` for i = from, from + 2, ... The u32 sum
\* cannot wrap for the lengths followed here (at most 64 bytes).
RECURSIVE SumWords(_, _)
SumWords(data, from) ==
    IF from >= Len(data) THEN 0
    ELSE Word(data, from) + SumWords(data, from + 2)

\* lines 192-194: while (sum >> 16) > 0 { sum = (sum & 0xffff) + (sum >> 16) }
RECURSIVE Fold(_)
Fold(sum) ==
    IF sum \div 65536 > 0 THEN Fold((sum % 65536) + (sum \div 65536))
    ELSE sum

\* line 196: `!sum as u16`, the low 16 bits of the complement of the u32
Complement16(sum) == 65535 - (sum % 65536)

\* lines 179-197
IcmpChecksum(data) == Complement16(Fold(SumWords(data, 0)))

\* faulty variant: checksum.to_le_bytes()
ToLeBytes(c) == << c % 256, c \div 256 >>

\* line 136: checksum.to_be_bytes()
ToBeBytes(c) == << c \div 256, c % 256 >>

\* line 136: packet[2..4].copy_from_slice(..)
WriteChecksum(packet, c) ==
    [packet EXCEPT ![3] = ToBeBytes(c)[1], ![4] = ToBeBytes(c)[2]]

\* lines 132-134: [0u8; 64] with type 8 (echo request) and code 0
EchoRequest == [i \in 1..EchoLen |-> IF i = 1 THEN 8 ELSE 0]

\* faulty variant: the clock reading used as the index, without the modulo
PickIndexNoWrap(nanos, len) == nanos

\* line 95-98: the clock reading modulo the pool length
PickIndex(nanos, len) == nanos % len

\* SystemTime readings; -1 stands for a clock set before UNIX_EPOCH
ClockReadings == -1 .. MaxClock

\* lines 94-102: the body of one send task. A panic ends the task as
\* "Panic": the unwrap of line 97 (no index computed, idx stays -1), the
\* remainder by a pool length of 0 at line 98, the bounds check of
\* targets[index] at line 99. An Err of send_ping is printed and the task
\* ends normally.
TaskBody(pool, nanos, net) ==
    IF nanos < 0 \/ Len(pool) = 0
    THEN [st |-> "Panic", idx |-> -1, target |-> "none"]
    ELSE LET index == PickIndex(nanos, Len(pool))
         IN  IF index >= Len(pool)
             THEN [st |-> "Panic", idx |-> index, target |-> "none"]
             ELSE [st |-> IF SendPing(pool[index + 1], net) = "Ok"
                          THEN "Ok" ELSE "Err",
                   idx |-> index, target |-> pool[index + 1]]

Finished(t) == t.st /= "spawned"

\* the runtime frees a finished task whose JoinHandle is gone
Reap(ts) == SelectSeq(ts, LAMBDA t : t.held \/ ~Finished(t))

\* the runtime runs task k of worker w to its end
TaskRun(w, k) ==
    /\ Alive
    /\ tasks[w][k].st = "spawned"
    /\ \E nanos \in ClockReadings, net \in NetOutcomes :
          LET r == TaskBody(wk[w].targets, nanos, net)
          IN  tasks' = [tasks EXCEPT ![w] =
                  Reap([@ EXCEPT ![k] = [@ EXCEPT !.st = r.st,
                                                  !.idx = r.idx,
                                                  !.target = r.target]])]
    /\ UNCHANGED << ping, inputs, now, mainvars, wk, stats >>

\* ------------------------------------------------------------------- join

\* index of the first task whose JoinHandle send_batch still holds, 0 if none
FirstHeld(ts) ==
    IF \E i \in 1..Len(ts) : ts[i].held
    THEN CHOOSE i \in 1..Len(ts) : ts[i].held /\ \A j \in 1..(i-1) : ~ts[j].held
    ELSE 0

\* faulty variant: task.await.unwrap(), a panicked send task takes the
\* worker down
AwaitPropagatesPanic(t) == t.st = "Panic"

\* line 107: `let _ = task.await` discards the JoinError of a panicked task
AwaitPropagates(t) == FALSE

\* lines 106-109: await the handles in order, one per step
Join(w) ==
    /\ Alive
    /\ wk[w].pc = "join"
    /\ LET k == FirstHeld(tasks[w])
           t == tasks[w][k]
       IN  /\ k > 0
           /\ AwaitReady(t)
           /\ tasks' = [tasks EXCEPT ![w] =
                  Reap([@ EXCEPT ![k] = [@ EXCEPT !.held = FALSE]])]
           /\ WkSet(w, [wk[w] EXCEPT
                  !.jn = @ + 1,
                  !.failures = @ \cup ({t.st} \ {"Ok"}),
                  !.pc = IF AwaitPropagates(t) THEN "panicked"
                         ELSE AfterJoin(wk[w].jn + 1, wk[w].sp)])
    /\ UNCHANGED << ping, inputs, now, mainvars, stats >>

\* ----------------------------------------------------------------- commit

\* lines 72-73: stats.lock().await; stats.batches_sent += 1
CommitLock(w) ==
    /\ Alive
    /\ wk[w].pc = "commit"
    /\ ~stats[w].locked
    /\ stats' = [stats EXCEPT ![w].locked = TRUE, ![w].batches_sent = @ + 1]
    /\ WkSet(w, [wk[w] EXCEPT !.pc = "inc_total"])
    /\ UNCHANGED << ping, inputs, now, mainvars, tasks >>

\* faulty variant: only the batches without a failed send are counted in full
CommitAmountSucceeded(w) ==
    IF wk[w].failures = {} THEN wk[w].rps ELSE wk[w].rps - 1

\* line 74: the amount added to total_requests for one batch
CommitAmount(w) == wk[w].rps

\* lines 74-85: stats.total_requests += rps; the progress line every 60
\* batches; the guard is dropped at the end of the iteration
CommitTotal(w) ==
    /\ Alive
    /\ wk[w].pc = "inc_total"
    /\ stats' = [stats EXCEPT ![w].total_requests = @ + CommitAmount(w),
                              ![w].locked = FALSE]
    /\ WkSet(w, [wk[w] EXCEPT !.pc = "check"])
    /\ UNCHANGED << ping, inputs, now, mainvars, tasks >>

\* ------------------------------------------------------------------ clock

\* some worker is in its run loop
WorkersActive ==
    \E w \in Workers : wk[w].pc \notin {"idle", "run", "completed", "panicked"}

\* the clock is followed until MaxSlack units after the duration
Horizon == args.duration * Period + MaxSlack

\* a worker waits for a tick that is not due yet
TickPending == \E w \in Workers : wk[w].pc = "tick" /\ now < wk[w].deadline

\* time passes; only the run loops read the clock. The clock never stops
\* short of a tick a worker waits for.
AdvanceClock ==
    /\ Alive
    /\ WorkersActive
    /\ now < Horizon \/ TickPending
    /\ now' = now + 1
    /\ UNCHANGED << ping, inputs, mainvars, wk, stats, tasks >>

WorkerStep(w) ==
    \/ RunInit(w)
    \/ LoopCheck(w)
    \/ Tick(w)
    \/ Spawn(w)
    \/ Join(w)
    \/ CommitLock(w)
    \/ CommitTotal(w)

Next ==
    \/ MainLoad
    \/ MainValidate
    \/ MainSize
    \/ MainInstall
    \/ MainCreate
    \/ MainSpawn
    \/ MainJoin
    \/ MainCleanup
    \/ AdvanceClock
    \/ \E w \in Workers : WorkerStep(w)
    \/ \E w \in Workers : \E k \in 1..Len(tasks[w]) : TaskRun(w, k)

Spec == Init /\ [][Next]_vars

SpecWorker == InitWorker /\ [][Next]_vars

\* the steps of main
MainStep ==
    \/ MainLoad
    \/ MainValidate
    \/ MainSize
    \/ MainInstall
    \/ MainCreate
    \/ MainSpawn
    \/ MainJoin
    \/ MainCleanup

\* What the runtime and the environment provide: main and the worker tasks
\* are polled whenever they can proceed, every spawned send task runs to its
\* end, and time passes.
Fairness ==
    /\ WF_vars(MainStep)
    /\ WF_vars(\E w \in Workers : WorkerStep(w))
    /\ WF_vars(\E w \in Workers : \E k \in 1..Len(tasks[w]) : TaskRun(w, k))
    /\ WF_vars(AdvanceClock)

\* The rates the runs of SpecLive are started with: empty batches, and one
\* send per batch and worker.
LiveRates == {0, 2}

\* whole runs with one or two workers, for a duration of 0 or 1 second
InitLive ==
    /\ file \in RunFiles
    /\ args \in [rps : LiveRates, duration : RunSeconds]
    /\ core_count \in RunCores
    /\ Start

\* whole runs under these provisions
SpecLive == InitLive /\ [][Next]_vars /\ Fairness

\* main up to the spawning of the workers
NextSizing ==
    \/ MainLoad
    \/ MainValidate
    \/ MainSize
    \/ MainInstall
    \/ MainCreate
    \/ MainSpawn

SpecSizing == InitSizing /\ [][NextSizing]_vars

\* ------------------------------------------------- one call of send_ping

\* the byte values the datagram buffers are filled with
ByteSamples == {0, 1, 8, 255}

\* Datagram buffers before the checksum is written: every buffer of
\* 4..MaxPacketLen bytes whose checksum field (bytes 2..3) is zero, and the
\* echo request that send_ping builds.
Packets ==
    { p \in UNION { [1..n -> ByteSamples] : n \in 4..MaxPacketLen } :
        p[3] = 0 /\ p[4] = 0 } \cup {EchoRequest}

\* a call of send_ping for any target, any failing system call, any buffer
InitPing ==
    /\ file = File(TRUE, TRUE, << Entry(0, "10.0.0.1") >>)
    /\ args = [rps |-> 0, duration |-> 0]
    /\ core_count = 1
    /\ now = 0
    /\ mpc = "load"
    /\ targets = <<>>
    /\ worker_count = 0
    /\ rps_per_worker = 0
    /\ fw = [rule |-> FALSE, install |-> "none", remove |-> "none"]
    /\ mi = 0
    /\ result = "none"
    /\ wk = <<>>
    /\ stats = <<>>
    /\ tasks = <<>>
    /\ ping \in [pc : {"open"}, target : Addresses, net : NetOutcomes,
                 packet : Packets, res : {"none"}, wire : {<<>>}]

\* the errors send_ping returns before it has built the datagram
EarlyErrors == {"ErrSocket", "ErrUnsupported", "ErrConnect"}

\* lines 117-129: Socket::new(..)?, the match on the target, connect(..)?
PingOpen ==
    /\ ping.pc = "open"
    /\ LET r == SendPing(ping.target, ping.net)
       IN  ping' = IF r \in EarlyErrors
                   THEN [ping EXCEPT !.pc = "done", !.res = r]
                   ELSE [ping EXCEPT !.pc = "build"]
    /\ UNCHANGED << inputs, now, mainvars, wk, stats, tasks >>

\* lines 132-136: the checksum of the buffer is written into bytes 2..3
PingBuild ==
    /\ ping.pc = "build"
    /\ ping' = [ping EXCEPT !.pc = "send",
                  !.packet = WriteChecksum(@, IcmpChecksum(@))]
    /\ UNCHANGED << inputs, now, mainvars, wk, stats, tasks >>

\* lines 138-139: socket.send(&packet)?; Ok(())
PingSend ==
    /\ ping.pc = "send"
    /\ LET r == SendPing(ping.target, ping.net)
       IN  ping' = [ping EXCEPT !.pc = "done", !.res = r,
                       !.wire = IF r = "Ok" THEN ping.packet ELSE <<>>]
    /\ UNCHANGED << inputs, now, mainvars, wk, stats, tasks >>

NextPing == PingOpen \/ PingBuild \/ PingSend

SpecPing == InitPing /\ [][NextPing]_vars

\* ------------------------------------------------------- load_whitelist

\* the entries the whitelists are written with: addresses, a string that is
\* no address, the empty string, each bare or padded with a blank
EntrySamples ==
    { Entry(lead, body) : lead \in 0..1,
                          body \in {"10.0.0.1", "::1", "junk", ""} }

\* every whitelist of at most MaxEntries entries, in either format, and an
\* unreadable file
LoadFiles ==
    { File(TRUE, json, items) :
        json \in BOOLEAN,
        items \in UNION { [1..n -> EntrySamples] : n \in 0..MaxEntries } }
    \cup { File(FALSE, FALSE, <<>>) }

\* main started on any of these whitelists
InitLoad ==
    /\ file \in LoadFiles
    /\ args = [rps |-> 0, duration |-> 0]
    /\ core_count = 1
    /\ Start

\* main up to the check of the pool
NextLoad == MainLoad \/ MainValidate

SpecLoad == InitLoad /\ [][NextLoad]_vars

\* =================================================================== claims

\* send_batch has returned and its caller has not yet touched the counters
Returned(w) == wk[w].pc = "commit"

\* the sends of worker w that have not finished
InFlight(w) == {i \in 1..Len(tasks[w]) : ~Finished(tasks[w][i])}

\* C1: one call of send_batch(n) starts exactly n send attempts, never more
\* while it runs, and when it has returned all n have been started, all n
\* have been awaited and none of them is still running.
C1_ExactBatch ==
    \A w \in Workers :
        /\ wk[w].sp <= wk[w].rps
        /\ wk[w].jn <= wk[w].sp
        /\ Returned(w) =>
              /\ wk[w].sp = wk[w].rps
              /\ wk[w].jn = wk[w].rps
              /\ InFlight(w) = {}

\* C1 witness: a batch of two sends has returned, one of them having failed
C1_Witness ==
    \E w \in Workers :
        Returned(w) /\ wk[w].rps = 2 /\ wk[w].jn = 2 /\ wk[w].failures /= {}

\* C2: the sends in flight for a worker all belong to its current batch:
\* batch k+1 starts no send while a send of batch k is outstanding.
C2_OneBatchInFlight ==
    \A w \in Workers :
        \A i \in InFlight(w) : tasks[w][i].batch = wk[w].batch

\* C2 witness: two sends of a later batch are in flight together
C2_Witness ==
    \E w \in Workers :
        wk[w].batch >= 2 /\ Cardinality(InFlight(w)) >= 2

\* C3 (as claimed): no batch starts at an instant at which the time elapsed
\* since the run loop started is >= the duration.
C3_NoBatchAtDeadline ==
    \A w \in Workers :
        wk[w].batch > 0 => wk[w].batch_start - wk[w].start < wk[w].duration

\* C4: a failed send (transport error, or a panic of the send task) aborts
\* neither the batch nor the worker: once a failure has been observed the
\* worker has not panicked, and when it is past the batch every send of the
\* batch was started and awaited.
C4_FailureAbsorbed ==
    \A w \in Workers :
        wk[w].failures /= {} =>
            /\ ~Panicked(w)
            /\ wk[w].pc /= "join" =>
                  wk[w].sp = wk[w].rps /\ wk[w].jn = wk[w].rps

\* C4 witness: after a batch with a transport error and a panicked send task
\* the worker has committed the counters and waits for its next tick
C4_Witness ==
    \E w \in Workers :
        /\ wk[w].failures = {"Err", "Panic"}
        /\ wk[w].pc = "tick"
        /\ stats[w].batches_sent >= 1

\* the batches of worker w whose sends have all been awaited
BatchesDone(w) ==
    IF wk[w].pc \in {"spawn", "join", "commit", "panicked"}
    THEN wk[w].batch - 1 ELSE wk[w].batch

\* C5: the counters are committed once per completed batch, in one critical
\* section: batches_sent counts the completed batches, and outside the
\* critical section total_requests = n * batches_sent whatever the sends did.
C5_CommitPerBatch ==
    \A w \in Workers :
        /\ stats[w].batches_sent = BatchesDone(w)
        /\ ~stats[w].locked =>
              stats[w].total_requests = wk[w].rps * stats[w].batches_sent

\* C5 witness: two batches of two sends are committed, the last with a failure
C5_Witness ==
    \E w \in Workers :
        /\ ~stats[w].locked
        /\ stats[w].batches_sent = 2
        /\ stats[w].total_requests = 4
        /\ wk[w].failures /= {}

\* C6: after every delivered tick, however late, the pacer's next tick is due
\* strictly after the delivery, on a boundary of the original schedule, and
\* at most one period away: missed ticks are never delivered back-to-back.
C6_SkipMissedTicks ==
    \A w \in Workers :
        wk[w].batch > 0 =>
            /\ wk[w].tick_sched <= wk[w].batch_start
            /\ wk[w].deadline > wk[w].batch_start
            /\ wk[w].deadline <= wk[w].batch_start + Period
            /\ (wk[w].deadline - wk[w].istart) % Period = 0

\* C6 witness: a tick is delivered a whole period late and the next one is
\* due at the boundary after the skipped one
C6_Witness ==
    \E w \in Workers :
        /\ wk[w].batch >= 2
        /\ wk[w].batch_start - wk[w].tick_sched >= Period
        /\ wk[w].deadline = wk[w].batch_start + Period

\* C7: every spawned worker gets the same share, and that share is
\* floor(global_rps / worker_count): share * count <= global_rps, short of
\* it by less than count.
C7_RateShare ==
    mpc \notin {"load", "validate", "size"} /\ worker_count > 0 =>
        /\ worker_count \in MinWorkers..MaxWorkers
        /\ rps_per_worker * worker_count <= args.rps
        /\ args.rps - rps_per_worker * worker_count < worker_count
        /\ \A w \in Workers :
              wk[w].pc /= "idle" => wk[w].rps = rps_per_worker

\* C7 witness: 2501 requests per second over 4 workers, 625 each
C7_Witness ==
    /\ args.rps = DefaultRps + 1
    /\ worker_count = 4
    /\ rps_per_worker = 625
    /\ Len(wk) = 4
    /\ \A w \in Workers : wk[w].pc = "run" /\ wk[w].rps = 625

\* C8: when no worker has faulted, main has gone past its join loop (rule
\* removal attempted, or main returned) only if every worker it started
\* has left its run loop.
C8_JoinAll ==
    (/\ mpc \in {"cleanup", "exit"} \/ fw.remove /= "none"
     /\ \A w \in Workers : ~Panicked(w))
        => \A w \in Workers : Completed(w)

\* C8 witness: main has returned after two workers that each ran a batch
C8_Witness ==
    /\ mpc = "exit"
    /\ result = "Ok"
    /\ Len(wk) = 2
    /\ \A w \in Workers : Completed(w) /\ stats[w].batches_sent >= 1

\* the whitelist cannot be read, or no entry of it is an address
NoPool == ~file.readable \/ LoadWhitelist(file) = <<>>

\* C9: when loading the whitelist fails or yields an empty pool, no worker is
\* created, no send is issued and the firewall is not touched.
C9_AbortBeforeWorkers ==
    NoPool =>
        /\ Workers = {}
        /\ tasks = <<>>
        /\ worker_count = 0
        /\ fw.install = "none" /\ ~fw.rule /\ fw.remove = "none"

\* C9 witness: main has returned on a readable file without any address
C9_Witness ==
    /\ mpc = "exit"
    /\ file.readable
    /\ file.items /= <<>>
    /\ targets = <<>>

\* a fatal error: no pool at startup, or a worker's task has faulted
Fatal == NoPool \/ \E w \in Workers : Panicked(w)

\* C10 (as claimed): a run that met a fatal error ends with a non-zero
\* exit status.
C10_FatalNonZero ==
    mpc = "exit" /\ Fatal => ExitCode(result) /= 0

\* C11 (as claimed): the firewall toggle is best-effort: whatever the install
\* step did, a run over a non-empty pool starts its workers, and whatever
\* the remove step did, a run whose workers all completed ends with Ok.
C11_BestEffort ==
    /\ (mpc = "exit" /\ fw.install /= "none") => Workers /= {}
    /\ (mpc = "exit" /\ fw.remove /= "none") => result = "Ok"

\* C12 (as claimed): whenever the rule was installed before the run, its
\* removal has been attempted when main returns, on every path.
C12_RuleRemovalAttempted ==
    (mpc = "exit" /\ fw.install = "zero") => fw.remove /= "none"

\* C13: if any worker's task has ended in a fault, main's result is an error,
\* never success.
C13_FaultIsError ==
    (mpc = "exit" /\ \E w \in Workers : Panicked(w)) => result = "Err"

\* C13 witness: the second worker faulted after the first completed a batch,
\* and main has returned
C13_Witness ==
    /\ mpc = "exit"
    /\ Len(wk) = 2
    /\ Completed(1) /\ stats[1].batches_sent >= 1
    /\ Panicked(2)

\* C14: once main has sized the run, worker_count is the detected core count
\* clamped into 1..16 (1 for no core, 16 for more than 16 cores, the core
\* count itself in between), never more workers exist than worker_count, and
\* when the spawn loop is over exactly worker_count workers were started.
C14_WorkerClamp ==
    mpc \notin {"load", "validate", "size"} /\ ~NoPool =>
        /\ worker_count \in 1..16
        /\ core_count = 0 => worker_count = 1
        /\ core_count > 16 => worker_count = 16
        /\ core_count \in 1..16 => worker_count = core_count
        /\ Len(wk) <= worker_count
        /\ mpc = "join" =>
              /\ Len(wk) = worker_count
              /\ \A w \in Workers : wk[w].pc /= "idle"

\* C14 witness: more than 16 cores detected, 16 workers started
C14_Witness ==
    /\ core_count > 16
    /\ mpc = "join"
    /\ Len(wk) = 16
    /\ \A w \in Workers : wk[w].pc = "run"

\* C15: once send_ping has written the checksum of a buffer (bytes 2..3 zero
\* before) big-endian into bytes 2..3, icmp_checksum of the buffer is 0.
C15_ChecksumVerifies ==
    ping.pc \in {"send", "done"} /\ ping.res \notin EarlyErrors =>
        IcmpChecksum(ping.packet) = 0

\* C15 witness: the 64-byte echo request went out with checksum 0xF7FF
C15_Witness ==
    /\ ping.pc = "done" /\ ping.res = "Ok"
    /\ Len(ping.wire) = 64
    /\ ping.wire[1] = 8 /\ ping.wire[2] = 0
    /\ ping.wire[3] = 247 /\ ping.wire[4] = 255

\* C17 (as claimed): a send to an IPv6 target ends in the unsupported-address
\* error and puts nothing on the wire, whatever the network does.
C17_V6Unsupported ==
    ping.pc = "done" /\ ping.target \in V6Addrs =>
        ping.res = "ErrUnsupported" /\ ping.wire = <<>>

\* the same entries written in the other format
OtherFormat(f) == File(f.readable, ~f.json, f.items)

\* the addresses among the entries, in their order: an entry counts when its
\* text is an address, in a JSON array only when it carries no padding
AddressesOf(f) ==
    LET Counts(e) == e.body \in Addresses /\ (f.json => e.lead = 0)
        kept == SelectSeq(f.items, Counts)
    IN  [i \in 1..Len(kept) |-> kept[i].body]

Unpadded(items) == \A i \in 1..Len(items) : items[i].lead = 0

\* C16 (as claimed): a readable whitelist loads to the same pool whether its
\* entries are written as a JSON array of strings or one per line.
C16_SamePool ==
    mpc /= "load" /\ file.readable =>
        targets = LoadWhitelist(OtherFormat(file))

\* C16 (amended): loading a readable whitelist never fails; the pool is the
\* addresses among the entries in their order, where a line is trimmed and
\* a JSON string is taken as written; when no entry is padded, both formats
\* give the same pool.
C16_LoadKeepsAddresses ==
    mpc /= "load" /\ file.readable =>
        /\ ~(mpc = "exit" /\ result = "Err")
        /\ targets = AddressesOf(file)
        /\ Unpadded(file.items) => targets = LoadWhitelist(OtherFormat(file))

\* C16 witness: a JSON array with a non-address between two addresses was
\* loaded to the two addresses, as its line format is
C16_Witness ==
    /\ mpc = "validate"
    /\ file = File(TRUE, TRUE, << Entry(0, "10.0.0.1"), Entry(0, "junk"),
                                  Entry(0, "::1") >>)
    /\ targets = << "10.0.0.1", "::1" >>
    /\ targets = LoadWhitelist(OtherFormat(file))

\* every started worker has left its run loop by returning
AllCompleted == \A w \in Workers : Completed(w)

\* some worker's task ended in a fault instead
SomeFault == \E w \in Workers : Panicked(w)

C19_BatchBound ==
    \A w \in Workers :
        wk[w].pc \notin {"idle", "run"} =>
            /\ wk[w].duration = args.duration * Period
            /\ wk[w].batch <= args.duration + 1
            /\ stats[w].batches_sent <= args.duration + 1
            /\ stats[w].total_requests <= wk[w].rps * (args.duration + 1)

\* C19 witness: a two-second run with a share of 2 completed after three
\* batches and six requests
C19_Witness ==
    /\ args.duration = 2
    /\ Len(wk) = 1 /\ Completed(1)
    /\ wk[1].rps = 2 /\ wk[1].batch = 3
    /\ stats[1].batches_sent = 3
    /\ stats[1].total_requests = 6

\* the elements of a pool
Elements(pool) == { pool[i] : i \in 1..Len(pool) }

\* C20: every worker runs with the pool main loaded, which is not empty, and
\* every send task that computed an index computed one within the pool and
\* directed its send to the pool's element at that index.
C20_TargetInPool ==
    \A w \in Workers :
        /\ wk[w].targets = LoadWhitelist(file)
        /\ Len(wk[w].targets) > 0
        /\ \A k \in 1..Len(tasks[w]) :
              LET t == tasks[w][k]
              IN  /\ t.idx /= -1 =>
                        /\ t.idx \in 0..(Len(wk[w].targets) - 1)
                        /\ t.target = wk[w].targets[t.idx + 1]
                  /\ t.target /= "none" =>
                        t.target \in Elements(LoadWhitelist(file))

\* C20 witness: in a pool of two, the clock reading 1 gave index 1 and the
\* send went to the second address
C20_Witness ==
    \E w \in Workers : \E k \in 1..Len(tasks[w]) :
        /\ Len(wk[w].targets) = 2
        /\ Finished(tasks[w][k]) /\ tasks[w][k].st /= "Panic"
        /\ tasks[w][k].idx = 1
        /\ tasks[w][k].target = wk[w].targets[2]

====
